---- MODULE Spec2Model ----
(***************************************************************************)
(* A state-machine model of oslo_cache.core (configuration translation,    *)
(* region configuration, the memoization decorator) and of                 *)
(* oslo_cache.backends.redis.RedisSentinelBackend.__init__.                *)
(*                                                                         *)
(* Strings are modelled as sequences of atoms.  An atom is a piece of text *)
(* without ':' ',' or '.', or one of these separators; the atoms are       *)
(* prefix-free, so two atom sequences are equal exactly when their         *)
(* concatenations are equal strings.                                       *)
(***************************************************************************)
EXTENDS Integers, Sequences, FiniteSets, TLC

VARIABLES
    conf,               \* the ConfigOpts object: [cache] options and the group's options
    conf_dict,          \* the dictionary the last _build_cache_config call returned
    build_done,         \* whether _build_cache_config has been called on its own
    arguments,          \* the dictionary handed to RedisSentinelBackend.__init__
    arguments_in,       \* that dictionary as it was when __init__ was entered
    sentinel_pc,        \* "new" | "done" | "raised" : outcome of __init__
    region,             \* the dogpile CacheRegion made by create_region
    instantiations,     \* how many times a backend class has been instantiated
    store,              \* what the backend instance holds, by mangled key
    now,                \* the clock
    gen,                \* how many times the memoized function has run
    memoize,            \* the decorator from get_memoization_decorator
    th,                 \* per thread: the memoized call it is inside of, if any
    last                \* the last call made on the library and its outcome

vars == <<conf, conf_dict, build_done, arguments, arguments_in, sentinel_pc,
          region, instantiations, store, now, gen, memoize, th, last>>

(***************************************************************************)
(* Python dictionaries: insertion-ordered sequences of <<key, value>>.     *)
(***************************************************************************)
DictKeys(d) == {d[i][1] : i \in 1..Len(d)}

DictHas(d, k) == \E i \in 1..Len(d) : d[i][1] = k

DictGet(d, k) == d[CHOOSE i \in 1..Len(d) : d[i][1] = k][2]

\* d[k] = v : replaces the value in place, or appends a new entry
DictSet(d, k, v) ==
    IF DictHas(d, k)
    THEN [i \in 1..Len(d) |-> IF d[i][1] = k THEN <<k, v>> ELSE d[i]]
    ELSE Append(d, <<k, v>>)

\* d.setdefault(k, v)
DictSetDefault(d, k, v) == IF DictHas(d, k) THEN d ELSE Append(d, <<k, v>>)

(***************************************************************************)
(* _build_cache_config                                                     *)
(***************************************************************************)
\* conf.cache.config_prefix
Prefix == <<"cache">>

\* the memcache arguments that the loop at the end of the function writes
LegacyArgs == <<"dead_retry", "socket_timeout", "pool_maxsize",
                "pool_unused_timeout", "pool_connection_get_timeout">>

\* the value of conf.cache.memcache_<option>, kept symbolic
ConfValue(option) == <<"conf.cache", option>>

\* position of the first ':' of s, 0 when there is none
FirstColon(s) ==
    IF \E i \in 1..Len(s) : s[i] = ":"
    THEN CHOOSE i \in 1..Len(s) : s[i] = ":" /\ \A j \in 1..(i-1) : s[j] # ":"
    ELSE 0

\* every ':' cuts (what argument.split(':') would do)
RECURSIVE SplitEvery(_)
SplitEvery(s) ==
    IF FirstColon(s) = 0 THEN <<s>>
    ELSE <<SubSeq(s, 1, FirstColon(s) - 1)>>
         \o SplitEvery(SubSeq(s, FirstColon(s) + 1, Len(s)))

\* argument.split(':', 1)
SplitOnce(s) ==
    IF FirstColon(s) = 0 THEN <<s>>
    ELSE <<SubSeq(s, 1, FirstColon(s) - 1), SubSeq(s, FirstColon(s) + 1, Len(s))>>

\* '.'.join([prefix, 'arguments', argname])
ArgKey(argname) == Prefix \o <<".", "arguments", ".">> \o argname

\* '%s.<field>' % prefix
FieldKey(field) == Prefix \o <<".", field>>

\* one round of the loop over backend_argument: the tuple unpacking raises
\* ValueError unless split returned two parts, and the entry is then skipped
ExpandArgument(d, argument) ==
    LET parts == SplitOnce(argument)
    IN  IF Len(parts) # 2 THEN d
        ELSE DictSet(d, ArgKey(parts[1]), parts[2])

RECURSIVE ExpandArguments(_, _)
ExpandArguments(d, args) ==
    IF args = <<>> THEN d
    ELSE ExpandArguments(ExpandArgument(d, Head(args)), Tail(args))

\* setdefault instead of assignment for every memcache argument
RECURSIVE ApplyLegacyIfAbsent(_, _)
ApplyLegacyIfAbsent(d, names) ==
    IF names = <<>> THEN d
    ELSE ApplyLegacyIfAbsent(DictSetDefault(d, ArgKey(<<Head(names)>>),
                                            ConfValue("memcache_" \o Head(names))),
                             Tail(names))

\* the memcache arguments other than url are assigned
RECURSIVE ApplyLegacy(_, _)
ApplyLegacy(d, names) ==
    IF names = <<>> THEN d
    ELSE ApplyLegacy(DictSet(d, ArgKey(<<Head(names)>>),
                             ConfValue("memcache_" \o Head(names))),
                     Tail(names))

BuildCacheConfig(c) ==
    LET d0 == DictSet(<<>>, FieldKey("backend"), c.backend)
        d1 == DictSet(d0, FieldKey("expiration_time"), c.expiration_time)
        d2 == ExpandArguments(d1, c.backend_argument)
        d3 == DictSetDefault(d2, ArgKey(<<"url">>), ConfValue("memcache_servers"))
    IN  ApplyLegacy(d3, LegacyArgs)

(***************************************************************************)
(* RedisSentinelBackend.__init__                                           *)
(***************************************************************************)
Digits == {"0", "1", "2"}

DigitVal(c) == CASE c = "0" -> 0 [] c = "1" -> 1 [] c = "2" -> 2

\* int(port) for a text of decimal digits
RECURSIVE IntOf(_)
IntOf(s) ==
    IF s = <<>> THEN 0
    ELSE 10 * IntOf(SubSeq(s, 1, Len(s) - 1)) + DigitVal(s[Len(s)])

\* int(port) raises ValueError on anything that is not a number
IntRaises(s) == s = <<>> \/ \E i \in 1..Len(s) : s[i] \notin Digits

\* position of the first occurrence of sep in s, 0 when there is none
FirstOf(s, sep) ==
    IF \E i \in 1..Len(s) : s[i] = sep
    THEN CHOOSE i \in 1..Len(s) : s[i] = sep /\ \A j \in 1..(i-1) : s[j] # sep
    ELSE 0

\* position of the last occurrence of sep in s, 0 when there is none
LastOf(s, sep) ==
    IF \E i \in 1..Len(s) : s[i] = sep
    THEN CHOOSE i \in 1..Len(s) : s[i] = sep /\ \A j \in (i+1)..Len(s) : s[j] # sep
    ELSE 0

\* s.split(",")
RECURSIVE SplitCommas(_)
SplitCommas(s) ==
    IF FirstOf(s, ",") = 0 THEN <<s>>
    ELSE <<SubSeq(s, 1, FirstOf(s, ",") - 1)>>
         \o SplitCommas(SubSeq(s, FirstOf(s, ",") + 1, Len(s)))

\* host_port.split(":", 1): cut at the first colon
SplitFirstColon(s) ==
    IF FirstOf(s, ":") = 0 THEN <<s>>
    ELSE <<SubSeq(s, 1, FirstOf(s, ":") - 1), SubSeq(s, FirstOf(s, ":") + 1, Len(s))>>

\* host_port.rsplit(":", 1): cut at the last colon
RSplitOnce(s) ==
    IF LastOf(s, ":") = 0 THEN <<s>>
    ELSE <<SubSeq(s, 1, LastOf(s, ":") - 1), SubSeq(s, LastOf(s, ":") + 1, Len(s))>>

\* the list comprehension raises ValueError when a piece does not unpack into
\* (host, port) or when int(port) fails
SentinelsRaise(s) ==
    \E i \in 1..Len(SplitCommas(s)) :
        LET hp == RSplitOnce(SplitCommas(s)[i])
        IN  Len(hp) # 2 \/ IntRaises(hp[2])

\* [(host, int(port)) for host, port in [... rsplit ...] for ... split(",")]
ParseSentinels(s) ==
    [i \in 1..Len(SplitCommas(s)) |->
        LET hp == RSplitOnce(SplitCommas(s)[i])
        IN  <<hp[1], IntOf(hp[2])>>]

\* Python truth value of the objects the ssl argument takes here
Truthy(v) == v \notin {"bool:False", "str:"}

SslKeys == {"ssl", "ssl_certfile", "ssl_keyfile", "ssl_ca_certs"}

\* 'ssl' in arguments and arguments['ssl']
SslRequested(a) == "ssl" \in DOMAIN a /\ Truthy(a["ssl"])

\* reformated_kwargs
ReformatedKwargs(a) ==
    LET base == [k \in {"username", "password"} |-> a[k]]
    IN  IF SslRequested(a)
        THEN [k \in {"username", "password"} \cup SslKeys |-> a[k]]
        ELSE base

\* a subscript of a missing key raises KeyError
KeywordsRaise(a) ==
    \/ {"username", "password"} \ DOMAIN a # {}
    \/ SslRequested(a) /\ SslKeys \ DOMAIN a # {}

\* arguments.update(...); del arguments['username']; del arguments['password']
Reshape(a) ==
    LET upd == [k \in DOMAIN a \cup {"sentinels", "connection_kwargs", "sentinel_kwargs"} |->
                   CASE k = "sentinels" -> ParseSentinels(a["sentinels"])
                     [] k = "connection_kwargs" -> ReformatedKwargs(a)
                     [] k = "sentinel_kwargs" -> ReformatedKwargs(a)
                     [] OTHER -> a[k]]
    IN  [k \in DOMAIN upd \ {"username", "password"} |-> upd[k]]

(***************************************************************************)
(* The region, its backend and its proxies                                 *)
(***************************************************************************)
\* api.NO_VALUE; a present value v is <<v>>
NO_VALUE == <<>>

\* what a Python method without a return statement returns
PyNone == <<"None">>

\* the backends that configure() registers
RegisteredBackends == {"oslo_cache.noop", "oslo_cache.mongo",
                       "oslo_cache.memcache_pool", "oslo_cache.dict"}

\* a backend the application registered itself, which declares a key_mangler
AppBackends == {"app.own_mangler"}

\* whether the plugin loader finds the backend named in the configuration
Resolvable(name) == name \in RegisteredBackends \cup AppBackends

\* the noop backend never stores anything
BackendStores(name) == name # "oslo_cache.noop"

\* the key_mangler attribute of the backend class
BackendKeyMangler(name) == IF name \in AppBackends THEN "backend" ELSE "None"

\* importutils.import_class(class_path) finds the class
Importable(class_path) == class_path # "app.missing"

\* dogpile.cache.make_region(function_key_generator=_function_key_generator)
CreateRegion ==
    [is_configured |-> FALSE, backend |-> "none", chain |-> <<>>,
     key_mangler |-> "None", expiration_time |-> <<>>]

\* the function's key: namespace, module and name of fn, and str() of the argument
FunctionKeyGenerator(arg) == <<"fn", arg>>

\* region.key_mangler(key): the mangler applied to the key, kept symbolic
Mangle(mangler, key) == <<mangler, key>>

\* region.configure_from_config(config_dict, prefix) on a resolvable backend
ConfigureFromConfig(r, d) ==
    [r EXCEPT !.is_configured = TRUE,
              !.backend = DictGet(d, FieldKey("backend")),
              !.expiration_time = <<DictGet(d, FieldKey("expiration_time"))>>,
              !.key_mangler = BackendKeyMangler(DictGet(d, FieldKey("backend")))]

\* a wrap that puts the proxy under the ones already there
WrapInnermost(r, cls) == [r EXCEPT !.chain = <<cls>> \o @]

\* region.wrap(cls): the proxy goes around the current backend; chain[1] is
\* the proxy next to the backend, the last element is the outermost
Wrap(r, cls) == [r EXCEPT !.chain = Append(@, cls)]

\* the default mangler put in whatever the backend asked for
AlwaysSha1(r) == [r EXCEPT !.key_mangler = "sha1"]

\* if region.key_mangler is None: region.key_mangler = _sha1_mangle_key
ApplyDefaultMangler(r) ==
    IF r.key_mangler = "None" THEN [r EXCEPT !.key_mangler = "sha1"] ELSE r

\* for class_path in conf.cache.proxies: import_class, wrap
RECURSIVE WrapProxies(_, _)
WrapProxies(r, paths) ==
    IF paths = <<>> THEN [region |-> r, error |-> "none"]
    ELSE IF ~Importable(Head(paths)) THEN [region |-> r, error |-> "ImportError"]
    ELSE WrapProxies(Wrap(r, Head(paths)), Tail(paths))

\* the body of "if not region.is_configured:"
ConfigureUnconfigured(c, r) ==
    LET d == BuildCacheConfig(c)
    IN  IF ~Resolvable(DictGet(d, FieldKey("backend")))
        THEN [region |-> r, error |-> "PluginLoadError", instantiated |-> 0]
        ELSE LET r1 == ConfigureFromConfig(r, d)
                 r2 == IF c.debug_cache_backend THEN Wrap(r1, "_DebugProxy") ELSE r1
                 r3 == ApplyDefaultMangler(r2)
                 w  == WrapProxies(r3, c.proxies)
             IN  [region |-> w.region, error |-> w.error, instantiated |-> 1]

\* configure_cache_region that does not look at is_configured
ConfigureEveryTime(c, r) == ConfigureUnconfigured(c, r)

\* configure_cache_region(conf, region) for a CacheRegion
ConfigureCacheRegion(c, r) ==
    IF r.is_configured
    THEN [region |-> r, error |-> "none", instantiated |-> 0]
    ELSE ConfigureUnconfigured(c, r)

\* a type check that lets the wrong object through to the attribute access
NotARegionAttributeError(is_region) == IF is_region THEN "none" ELSE "AttributeError"

\* if not isinstance(region, dogpile.cache.CacheRegion): raise ConfigurationError
RegionTypeError(is_region) == IF is_region THEN "none" ELSE "ConfigurationError"

(***************************************************************************)
(* Calls through the proxy chain                                           *)
(***************************************************************************)
\* what the backend instance holds under a mangled key
BackendGet(b, st, k) == IF BackendStores(b) THEN st[k] ELSE NO_VALUE

\* the backend's answer to one call; what its set and delete methods return
\* is kept symbolic
BackendReturn(b, st, op) ==
    CASE op.name = "get" -> BackendGet(b, st, op.keys[1])
      [] op.name = "get_multi" ->
            [i \in 1..Len(op.keys) |-> BackendGet(b, st, op.keys[i])]
      [] OTHER -> <<"returned by", b, op.name>>

\* the backend's contents after one call
BackendApply(b, st, op) ==
    IF ~BackendStores(b) THEN st
    ELSE CASE op.name \in {"set", "set_multi"} ->
                 [k \in DOMAIN st |->
                     IF \E i \in 1..Len(op.keys) : op.keys[i] = k
                     THEN <<op.value>> ELSE st[k]]
           [] op.name \in {"delete", "delete_multi"} ->
                 [k \in DOMAIN st |->
                     IF \E i \in 1..Len(op.keys) : op.keys[i] = k
                     THEN NO_VALUE ELSE st[k]]
           [] OTHER -> st

\* _DebugProxy: get, get_multi and set return the proxied result; set_multi,
\* delete and delete_multi have no return statement
DebugProxyReturn(opname, proxied) ==
    IF opname \in {"get", "get_multi", "set"} THEN proxied ELSE PyNone

\* a proxy class from conf.cache.proxies hands the proxied result back
LayerReturn(layer, opname, proxied) ==
    IF layer = "_DebugProxy" THEN DebugProxyReturn(opname, proxied) ELSE proxied

\* what each layer of the chain returns, innermost first
RECURSIVE ChainReturns(_, _, _)
ChainReturns(chain, opname, below) ==
    IF chain = <<>> THEN <<>>
    ELSE <<LayerReturn(Head(chain), opname, below)>>
         \o ChainReturns(Tail(chain), opname, LayerReturn(Head(chain), opname, below))

\* the layers in the order the call reaches them, each with what it was
\* handed by the layer below and what it returned
CallTrace(r, st, op) ==
    LET n    == Len(r.chain)
        bret == BackendReturn(r.backend, st, op)
        rets == ChainReturns(r.chain, op.name, bret)
    IN  [i \in 1..(n + 1) |->
            IF i = n + 1
            THEN [layer |-> "backend", op |-> op.name, proxied |-> bret, returned |-> bret]
            ELSE [layer |-> r.chain[n + 1 - i], op |-> op.name,
                  proxied |-> IF n + 1 - i = 1 THEN bret ELSE rets[n - i],
                  returned |-> rets[n + 1 - i]]]

\* what region.backend.<op>(...) returns to the region
CallResult(r, st, op) == CallTrace(r, st, op)[1].returned

(***************************************************************************)
(* The memoization decorator                                               *)
(***************************************************************************)
\* should_cache that only looks at the group's flag
ShouldCacheGroupOnly(c, value) ==
    IF c.caching = "absent" THEN TRUE ELSE c.caching = "True"

\* _get_should_cache_fn(conf, group).should_cache(value); "absent" stands for
\* a group that defines no caching option
ShouldCacheFn(c, value) ==
    IF ~c.enabled THEN FALSE
    ELSE IF c.caching = "absent" THEN TRUE ELSE c.caching = "True"

\* _get_expiration_time_fn(conf, group).get_expiration_time(): <<>> is None
ExpirationTimeFn(c, group) == c.cache_time[group]

\* get_memoization_decorator(conf, region, group, expiration_group):
\* <<>> is expiration_group=None
GetMemoizationDecorator(group, expiration_group) ==
    [group |-> group,
     expiration_group |-> IF expiration_group = <<>> THEN group
                          ELSE expiration_group[1]]

\* the time to live of a read: the decorator's, or the region's when None
Timeout(c, m, r) ==
    IF ExpirationTimeFn(c, m.expiration_group) = <<>>
    THEN r.expiration_time[1]
    ELSE ExpirationTimeFn(c, m.expiration_group)[1]

\* the value read does not answer the call: the backend has none, or it is
\* older than the time to live; the configuration is not looked at
CacheMiss(got, ttl, t, c) == got = NO_VALUE \/ t - got[1].ct > ttl

\* a decorator that stores whatever the function returned
PopulateAlways(c, value) == TRUE

\* a decorator that stores exactly when should_cache says not to
PopulateInverted(c, value) == ~ShouldCacheFn(c, value)

\* the region stores the created value when should_cache_fn(value) is true
Populate(c, value) == ShouldCacheFn(c, value)

(***************************************************************************)
(* Bounds and input sets                                                   *)
(***************************************************************************)
MaxArgList == 2      \* longest backend_argument list
MaxSentinels == 2    \* most host:port pairs in a sentinels string
MaxProxies == 2      \* longest proxies list
MaxCalls == 2        \* most executions of the memoized function
MaxTime == 1         \* last instant of the clock
ExpirationTime == 1  \* the value given to [cache] expiration_time
ShortCacheTime == 0  \* the value given to a group's cache_time when set

\* the arguments the memoized function is called with
Args == {1, 2}

Keys == {FunctionKeyGenerator(a) : a \in Args}

Manglers == {"None", "backend", "sha1"}

MangledKeys == {Mangle(m, k) : m \in Manglers, k \in Keys}

Groups == {"group", "expiration_group"}

\* sequences over S of length at most n
SeqsUpTo(S, n) == UNION {[1..k -> S] : k \in 0..n}

\* sequences without a repeated element
Distinct(q) == \A i, j \in 1..Len(q) : i # j => q[i] # q[j]

ArgNames == {<<>>, <<"url">>, <<"dead_retry">>, <<"x">>, <<"x", "url">>}

ArgSeparators == {<<>>, <<":">>}

ArgValues == {<<>>, <<"v">>, <<"w">>, <<"v", ":", "w">>}

\* the strings a backend_argument list is made of
ArgStrings == {n \o p \o v : n \in ArgNames, p \in ArgSeparators, v \in ArgValues}

ProxyPaths == {"app.ProxyA", "app.ProxyB", "app.missing"}

BackendNames == {"oslo_cache.dict", "oslo_cache.noop", "app.own_mangler",
                 "no.such.backend"}

\* the pieces a sentinels string is made of
SentinelPieces ==
    { <<"h", ":", "1">>, <<"h", ":", "1", "2">>, <<"h", ":", "2", "1">>,
      <<"g", ":", "0", "2">>, <<"h", ":", "g", ":", "2">>, <<":", "1">>,
      <<"h">>, <<"h", ":">>, <<"h", ":", "g">>, <<"1", ":", "h">>, <<>> }

\* ",".join(pieces)
RECURSIVE JoinCommas(_)
JoinCommas(pieces) ==
    IF Len(pieces) = 0 THEN <<>>
    ELSE IF Len(pieces) = 1 THEN pieces[1]
    ELSE pieces[1] \o <<",">> \o JoinCommas(Tail(pieces))

SentinelStrings ==
    {JoinCommas(q) : q \in SeqsUpTo(SentinelPieces, MaxSentinels)}

SslValues == {"bool:False", "bool:True", "str:", "str:False"}

\* the argument dictionaries handed to RedisSentinelBackend
SentinelArguments ==
    LET base(s) == [k \in {"sentinels", "username", "password", "service_name"} |->
                       CASE k = "sentinels" -> s
                         [] k = "username" -> <<"u">>
                         [] k = "password" -> <<"p">>
                         [] OTHER -> <<"mymaster">>]
        files == [k \in SslKeys \ {"ssl"} |-> <<"file", k>>]
    IN  {base(s) : s \in SentinelStrings}
        \cup {base(s) @@ [k \in {"ssl"} |-> v] @@ files :
                 s \in SentinelStrings, v \in SslValues}
        \cup {base(s) @@ [k \in {"ssl"} |-> v] :
                 s \in SentinelStrings, v \in SslValues}

(***************************************************************************)
(* State                                                                   *)
(***************************************************************************)
DefaultConf ==
    [enabled |-> TRUE, caching |-> "absent",
     cache_time |-> [g \in Groups |-> <<>>],
     debug_cache_backend |-> FALSE, proxies |-> <<>>,
     backend |-> "oslo_cache.dict", expiration_time |-> ExpirationTime,
     backend_argument |-> <<>>]

NoCall ==
    [op |-> "none", error |-> "none", arg |-> 0, executed |-> FALSE,
     stored |-> FALSE, flag |-> FALSE, ct |-> 0, result |-> NO_VALUE,
     configured_before |-> FALSE, trace |-> <<>>]

EmptyStore == [k \in MangledKeys |-> NO_VALUE]

\* the threads that call the memoized function
Threads == {"A", "B"}

\* a thread that is not inside a memoized call
IdleThread ==
    [pc |-> "idle", arg |-> 0, ttl |-> 0, got |-> NO_VALUE, created |-> <<0, 0>>,
     trace |-> <<>>]

\* the value a caller stores with region.set
Seed == <<0, 0>>

InitCommon ==
    /\ conf_dict = <<>>
    /\ build_done = FALSE
    /\ region = CreateRegion
    /\ instantiations = 0
    /\ store = EmptyStore
    /\ now = 0
    /\ gen = 0
    /\ th = [t \in Threads |-> IdleThread]
    /\ last = NoCall

NoSentinel ==
    /\ arguments = [k \in {"sentinels"} |-> <<>>]
    /\ arguments_in = arguments
    /\ sentinel_pc = "off"

DefaultDecorator == memoize = GetMemoizationDecorator("group", <<>>)

regionVars == <<region, instantiations, store, now, gen, memoize, th, last>>
sentinelVars == <<arguments, arguments_in, sentinel_pc>>
buildVars == <<conf_dict, build_done>>

(***************************************************************************)
(* _build_cache_config called on its own                                   *)
(***************************************************************************)
InitBuild ==
    /\ InitCommon /\ NoSentinel /\ DefaultDecorator
    /\ \E q \in SeqsUpTo(ArgStrings, MaxArgList) :
          conf = [DefaultConf EXCEPT !.backend_argument = q]

BuildCacheConfigCall ==
    /\ ~build_done
    /\ conf_dict' = BuildCacheConfig(conf)
    /\ build_done' = TRUE
    /\ UNCHANGED <<conf, sentinelVars, regionVars>>

NextBuild == BuildCacheConfigCall

SpecBuild == InitBuild /\ [][NextBuild]_vars

(***************************************************************************)
(* RedisSentinelBackend(arguments)                                         *)
(***************************************************************************)
InitSentinel ==
    /\ InitCommon /\ DefaultDecorator
    /\ conf = DefaultConf
    /\ arguments \in SentinelArguments
    /\ arguments_in = arguments
    /\ sentinel_pc = "new"

RedisSentinelBackendInit ==
    /\ sentinel_pc = "new"
    /\ IF SentinelsRaise(arguments["sentinels"])
       THEN sentinel_pc' = "ValueError" /\ UNCHANGED arguments
       ELSE IF KeywordsRaise(arguments)
       THEN sentinel_pc' = "KeyError" /\ UNCHANGED arguments
       ELSE sentinel_pc' = "done" /\ arguments' = Reshape(arguments)
    /\ UNCHANGED <<conf, arguments_in, buildVars, regionVars>>

NextSentinel == RedisSentinelBackendInit

SpecSentinel == InitSentinel /\ [][NextSentinel]_vars

(***************************************************************************)
(* Calls on the library                                                    *)
(***************************************************************************)
\* configure_cache_region(conf, region)
ConfigureRegion ==
    LET out == ConfigureCacheRegion(conf, region)
    IN  /\ RegionTypeError(TRUE) = "none"
        /\ region' = out.region
        /\ instantiations' = instantiations + out.instantiated
        /\ conf_dict' = IF region.is_configured THEN conf_dict
                        ELSE BuildCacheConfig(conf)
        /\ last' = [NoCall EXCEPT !.op = "configure", !.error = out.error,
                                  !.configured_before = region.is_configured]
        /\ UNCHANGED <<conf, build_done, store, now, gen, memoize, th, sentinelVars>>

\* configure_cache_region(conf, obj) for an object that is no CacheRegion
ConfigureOther ==
    /\ last' = [NoCall EXCEPT !.op = "configure_other",
                              !.error = RegionTypeError(FALSE)]
    /\ UNCHANGED <<conf, buildVars, region, instantiations, store, now, gen,
                   memoize, th, sentinelVars>>

\* one call on the configured region's backend, through the proxies
RegionCall(opname, keys, value) ==
    LET op == [name |-> opname,
               keys |-> [i \in 1..Len(keys) |-> Mangle(region.key_mangler, keys[i])],
               value |-> [payload |-> value, ct |-> now]]
    IN  /\ IF ~region.is_configured
           THEN /\ last' = [NoCall EXCEPT !.op = opname, !.error = "RegionNotConfigured"]
                /\ UNCHANGED store
           ELSE /\ store' = BackendApply(region.backend, store, op)
                /\ last' = [NoCall EXCEPT !.op = opname,
                                          !.result = CallResult(region, store, op),
                                          !.trace = CallTrace(region, store, op)]
        /\ UNCHANGED <<conf, buildVars, region, instantiations, now, gen,
                       memoize, th, sentinelVars>>

RegionGet == \E k \in Keys : RegionCall("get", <<k>>, Seed)
RegionSet == \E k \in Keys : RegionCall("set", <<k>>, Seed)
RegionDelete == \E k \in Keys : RegionCall("delete", <<k>>, Seed)
RegionGetMulti == \E q \in SeqsUpTo(Keys, 2) : Len(q) = 2 /\ RegionCall("get_multi", q, Seed)
RegionSetMulti == \E q \in SeqsUpTo(Keys, 2) : Len(q) = 2 /\ RegionCall("set_multi", q, Seed)
RegionDeleteMulti == \E q \in SeqsUpTo(Keys, 2) : Len(q) = 2 /\ RegionCall("delete_multi", q, Seed)

(***************************************************************************)
(* A call of the function decorated with the memoization decorator.  The   *)
(* call is not atomic: it reads the backend, takes the key's lock, reads   *)
(* again, runs the function, and only then asks should_cache and stores.   *)
(* Other threads and changes of the options come in between.               *)
(***************************************************************************)
\* the backend key of a call with argument a
CallKey(a) == Mangle(region.key_mangler, FunctionKeyGenerator(a))

\* the read the region makes for a call with argument a
CallGet(a) ==
    [name |-> "get", keys |-> <<CallKey(a)>>, value |-> [payload |-> Seed, ct |-> now]]

\* the key's lock is held by the thread that is creating the value
LockHeld(a) == \E u \in Threads : th[u].pc \in {"run", "store"} /\ th[u].arg = a

\* the call returns a value it read from the backend, the function not run
ReturnRead(t, a, entry, trace) ==
    /\ last' = [NoCall EXCEPT !.op = "call", !.arg = a,
                              !.flag = ShouldCacheFn(conf, entry.payload),
                              !.ct = entry.ct,
                              !.result = <<entry.payload>>,
                              !.trace = trace]
    /\ th' = [th EXCEPT ![t] = IdleThread]

\* the call starts: the time to live is read from the options and the
\* backend is read; a value that has not expired is returned at once
CallBegin(t, a) ==
    /\ th[t].pc = "idle"
    /\ IF ~region.is_configured
       THEN /\ last' = [NoCall EXCEPT !.op = "call", !.arg = a,
                                      !.error = "AttributeError"]
            /\ UNCHANGED th
       ELSE LET got == CallResult(region, store, CallGet(a))
                ttl == Timeout(conf, memoize, region)
            IN  IF ~CacheMiss(got, ttl, now, conf)
                THEN ReturnRead(t, a, got[1], CallTrace(region, store, CallGet(a)))
                ELSE /\ th' = [th EXCEPT ![t] =
                                  [pc |-> "lock", arg |-> a, ttl |-> ttl, got |-> got,
                                   created |-> <<0, 0>>,
                                   trace |-> CallTrace(region, store, CallGet(a))]]
                     /\ UNCHANGED last
    /\ UNCHANGED <<conf, buildVars, region, instantiations, store, now, gen,
                   memoize, sentinelVars>>

\* the call goes for the key's lock.  With an expired value at hand it does
\* not wait: if the lock is held it returns the expired value, otherwise it
\* takes the lock and creates.  With no value at hand it waits for the lock,
\* reads the backend again and returns what another call stored meanwhile,
\* if that has not expired.
CallLock(t) ==
    /\ th[t].pc = "lock"
    /\ LET a == th[t].arg
       IN  IF th[t].got # NO_VALUE
           THEN IF LockHeld(a)
                THEN ReturnRead(t, a, th[t].got[1], th[t].trace)
                ELSE /\ th' = [th EXCEPT ![t].pc = "run"]
                     /\ UNCHANGED last
           ELSE /\ ~LockHeld(a)
                /\ LET got2  == CallResult(region, store, CallGet(a))
                       trace == th[t].trace \o CallTrace(region, store, CallGet(a))
                   IN  IF ~CacheMiss(got2, th[t].ttl, now, conf)
                       THEN ReturnRead(t, a, got2[1], trace)
                       ELSE /\ th' = [th EXCEPT ![t].pc = "run", ![t].trace = trace]
                            /\ UNCHANGED last
    /\ UNCHANGED <<conf, buildVars, region, instantiations, store, now, gen,
                   memoize, sentinelVars>>

\* the function runs, the lock held
CallRun(t) ==
    /\ th[t].pc = "run"
    /\ gen < MaxCalls
    /\ gen' = gen + 1
    /\ th' = [th EXCEPT ![t].pc = "store", ![t].created = <<th[t].arg, gen + 1>>]
    /\ UNCHANGED <<conf, buildVars, region, instantiations, store, now, memoize,
                   last, sentinelVars>>

\* the function has returned: should_cache_fn(value) is asked, the value is
\* stored if it says so, the lock is released and the value returned
CallStore(t) ==
    /\ th[t].pc = "store"
    /\ LET a       == th[t].arg
           created == th[t].created
           setop   == [name |-> "set", keys |-> <<CallKey(a)>>,
                       value |-> [payload |-> created, ct |-> now]]
       IN  /\ store' = IF Populate(conf, created)
                       THEN BackendApply(region.backend, store, setop)
                       ELSE store
           /\ last' = [NoCall EXCEPT !.op = "call", !.arg = a,
                          !.executed = TRUE,
                          !.stored = Populate(conf, created),
                          !.flag = ShouldCacheFn(conf, created),
                          !.ct = now,
                          !.result = <<created>>,
                          !.trace = th[t].trace
                              \o IF Populate(conf, created)
                                 THEN CallTrace(region, store, setop)
                                 ELSE <<>>]
           /\ th' = [th EXCEPT ![t] = IdleThread]
    /\ UNCHANGED <<conf, buildVars, region, instantiations, now, gen, memoize,
                   sentinelVars>>

MemoizedCall(t) ==
    \/ \E a \in Args : CallBegin(t, a)
    \/ CallLock(t)
    \/ CallRun(t)
    \/ CallStore(t)

\* memoize.should_cache(value) called directly
ShouldCacheCall ==
    /\ \E a \in Args :
          last' = [NoCall EXCEPT !.op = "should_cache", !.arg = a,
                                 !.flag = ShouldCacheFn(conf, <<a, 0>>)]
    /\ UNCHANGED <<conf, buildVars, region, instantiations, store, now, gen,
                   memoize, th, sentinelVars>>

\* time passes
Tick ==
    /\ now < MaxTime
    /\ now' = now + 1
    /\ UNCHANGED <<conf, buildVars, region, instantiations, store, gen, memoize,
                   th, last, sentinelVars>>

(***************************************************************************)
(* Changes of the configuration options (set_override)                     *)
(***************************************************************************)
SetConf(c) ==
    /\ c # conf
    /\ conf' = c
    /\ UNCHANGED <<buildVars, regionVars, sentinelVars>>

SetEnabled == \E b \in BOOLEAN : SetConf([conf EXCEPT !.enabled = b])

SetCaching ==
    \E v \in {"absent", "True", "False"} : SetConf([conf EXCEPT !.caching = v])

\* cache_time of the group the decorator reads its time to live from
SetCacheTime ==
    \E t \in {<<>>, <<ShortCacheTime>>} :
        SetConf([conf EXCEPT !.cache_time[memoize.expiration_group] = t])

SetDebug == \E b \in BOOLEAN : SetConf([conf EXCEPT !.debug_cache_backend = b])

ProxyLists == {q \in SeqsUpTo(ProxyPaths, MaxProxies) : Distinct(q)}

SetProxies == \E q \in ProxyLists : SetConf([conf EXCEPT !.proxies = q])

SetBackend == \E b \in BackendNames : SetConf([conf EXCEPT !.backend = b])

(***************************************************************************)
(* Region configuration and direct use of the region                       *)
(***************************************************************************)
InitConfigure ==
    /\ InitCommon /\ NoSentinel /\ DefaultDecorator
    /\ \E b \in BackendNames, d \in BOOLEAN, q \in ProxyLists :
          conf = [DefaultConf EXCEPT !.backend = b, !.debug_cache_backend = d,
                                     !.proxies = q]

NextConfigure ==
    \/ SetDebug
    \/ SetProxies
    \/ SetBackend
    \/ ConfigureRegion
    \/ ConfigureOther
    \/ RegionGet
    \/ RegionSet
    \/ RegionDelete
    \/ RegionGetMulti
    \/ RegionSetMulti
    \/ RegionDeleteMulti

SpecConfigure == InitConfigure /\ [][NextConfigure]_vars

(***************************************************************************)
(* Memoized calls                                                          *)
(***************************************************************************)
InitMemoize ==
    /\ InitCommon /\ NoSentinel
    /\ \E eg \in {<<>>, <<"expiration_group">>} :
          memoize = GetMemoizationDecorator("group", eg)
    /\ \E b \in {"oslo_cache.dict", "oslo_cache.noop"}, e \in BOOLEAN,
          v \in {"absent", "True", "False"} :
          conf = [DefaultConf EXCEPT !.backend = b, !.enabled = e, !.caching = v]

NextMemoize ==
    \/ SetEnabled
    \/ SetCaching
    \/ SetCacheTime
    \/ ConfigureRegion
    \/ (\E t \in Threads : MemoizedCall(t))
    \/ ShouldCacheCall
    \/ RegionDelete
    \/ Tick

SpecMemoize == InitMemoize /\ [][NextMemoize]_vars

(***************************************************************************)
(* Properties of _build_cache_config                                       *)
(***************************************************************************)
WellFormed(s) == \E i \in 1..Len(s) : s[i] = ":"

\* the text before the first colon and the text after it
NameOf(s) == SubSeq(s, 1, FirstColon(s) - 1)
ValueOf(s) == SubSeq(s, FirstColon(s) + 1, Len(s))

\* the positions of conf_dict that hold key k
Positions(d, k) == {i \in 1..Len(d) : d[i][1] = k}

\* the last well-formed entry of the list that names n
LastNaming(args, n) ==
    CHOOSE i \in 1..Len(args) :
        /\ WellFormed(args[i]) /\ NameOf(args[i]) = n
        /\ \A j \in (i+1)..Len(args) : ~(WellFormed(args[j]) /\ NameOf(args[j]) = n)

Supplied(args, n) == \E i \in 1..Len(args) : WellFormed(args[i]) /\ NameOf(args[i]) = n

LegacyNames == {<<LegacyArgs[i]>> : i \in 1..Len(LegacyArgs)}

\* C5: the dictionary holds exactly one <prefix>.arguments.<name> entry for
\* the name of each well-formed "name:value" string, cut at the first colon;
\* a string without a colon adds no entry and does not stop the translation;
\* the entries come in list order, a later string of the same name giving the
\* value.
C5_OneEntryPerWellFormedArgument ==
    build_done =>
      LET args == conf.backend_argument
          fixed == {FieldKey("backend"), FieldKey("expiration_time"),
                    ArgKey(<<"url">>)} \cup {ArgKey(n) : n \in LegacyNames}
      IN  /\ \A i \in 1..Len(args) :
                WellFormed(args[i]) =>
                    Cardinality(Positions(conf_dict, ArgKey(NameOf(args[i])))) = 1
          /\ DictKeys(conf_dict) =
                fixed \cup {ArgKey(NameOf(args[i])) :
                               i \in {j \in 1..Len(args) : WellFormed(args[j])}}
          /\ \A i \in 1..Len(args) :
                (WellFormed(args[i]) /\ NameOf(args[i]) \notin LegacyNames) =>
                    DictGet(conf_dict, ArgKey(NameOf(args[i])))
                        = ValueOf(args[LastNaming(args, NameOf(args[i]))])
          /\ \A i, j \in 1..Len(args) :
                (/\ i < j /\ WellFormed(args[i]) /\ WellFormed(args[j])
                 /\ NameOf(args[i]) # NameOf(args[j])
                 /\ NameOf(args[i]) \notin LegacyNames
                 /\ ~Supplied(SubSeq(args, 1, i - 1), NameOf(args[j]))) =>
                    \A p \in Positions(conf_dict, ArgKey(NameOf(args[i]))),
                       q \in Positions(conf_dict, ArgKey(NameOf(args[j]))) : p < q

C5_Witness ==
    /\ build_done
    /\ Len(conf.backend_argument) = 2
    /\ conf.backend_argument[1] = <<"x", ":", "v", ":", "w">>
    /\ ~WellFormed(conf.backend_argument[2])
    /\ DictGet(conf_dict, ArgKey(<<"x">>)) = <<"v", ":", "w">>

\* C6 as stated: each of the six memcache arguments keeps the value given
\* through backend_argument and takes the memcache_* option only when absent.
C6_AllLegacySetIfAbsent ==
    build_done =>
      LET args == conf.backend_argument
      IN  /\ DictGet(conf_dict, ArgKey(<<"url">>)) =
                IF Supplied(args, <<"url">>)
                THEN ValueOf(args[LastNaming(args, <<"url">>)])
                ELSE ConfValue("memcache_servers")
          /\ \A i \in 1..Len(LegacyArgs) :
                DictGet(conf_dict, ArgKey(<<LegacyArgs[i]>>)) =
                    IF Supplied(args, <<LegacyArgs[i]>>)
                    THEN ValueOf(args[LastNaming(args, <<LegacyArgs[i]>>)])
                    ELSE ConfValue("memcache_" \o LegacyArgs[i])

\* C6 amended: url alone is set if absent; dead_retry, socket_timeout,
\* pool_maxsize, pool_unused_timeout and pool_connection_get_timeout always
\* take the memcache_* option, whatever backend_argument supplied.
C6_OnlyUrlSetIfAbsent ==
    build_done =>
      LET args == conf.backend_argument
      IN  /\ DictGet(conf_dict, ArgKey(<<"url">>)) =
                IF Supplied(args, <<"url">>)
                THEN ValueOf(args[LastNaming(args, <<"url">>)])
                ELSE ConfValue("memcache_servers")
          /\ \A i \in 1..Len(LegacyArgs) :
                DictGet(conf_dict, ArgKey(<<LegacyArgs[i]>>)) =
                    ConfValue("memcache_" \o LegacyArgs[i])

C6_Witness ==
    /\ build_done
    /\ Supplied(conf.backend_argument, <<"url">>)
    /\ Supplied(conf.backend_argument, <<"dead_retry">>)
    /\ DictGet(conf_dict, ArgKey(<<"url">>)) = <<"v">>
    /\ DictGet(conf_dict, ArgKey(<<"dead_retry">>)) = ConfValue("memcache_dead_retry")

(***************************************************************************)
(* Properties of RedisSentinelBackend.__init__                             *)
(***************************************************************************)
\* a comma-separated string of host:port pairs: every piece has a colon and
\* the text after its last colon is a decimal number
HostPortString(s) ==
    \A i \in 1..Len(SplitCommas(s)) :
        LET piece == SplitCommas(s)[i]
        IN  \E p \in 1..Len(piece) :
               /\ piece[p] = ":"
               /\ p < Len(piece)
               /\ \A j \in (p+1)..Len(piece) : piece[j] \in Digits

\* the decimal text of a number written with at most three digits
DecimalOf(digits, n) ==
    /\ Len(digits) \in 1..3
    /\ n = (IF Len(digits) = 3 THEN 100 * DigitVal(digits[Len(digits) - 2]) ELSE 0)
         + (IF Len(digits) >= 2 THEN 10 * DigitVal(digits[Len(digits) - 1]) ELSE 0)
         + DigitVal(digits[Len(digits)])

\* C8: for a comma-separated host:port string, sentinels becomes the list of
\* (host, int(port)) in input order, each pair cut at its last colon;
\* connection_kwargs and sentinel_kwargs are present and equal and hold
\* exactly username and password, and the four ssl arguments as well exactly
\* when ssl is truthy; username and password are no longer top-level keys.
C8_SentinelArgumentsReshaped ==
    (/\ sentinel_pc # "new"
     /\ HostPortString(arguments_in["sentinels"])
     /\ (SslRequested(arguments_in) => SslKeys \subseteq DOMAIN arguments_in)) =>
      LET pieces == SplitCommas(arguments_in["sentinels"])
          out    == arguments["sentinels"]
          kw     == arguments["connection_kwargs"]
          truthy == "ssl" \in DOMAIN arguments_in
                    /\ arguments_in["ssl"] \in {"bool:True", "str:False"}
      IN  /\ sentinel_pc = "done"
          /\ Len(out) = Len(pieces)
          /\ \A i \in 1..Len(pieces) :
                \E p \in 1..Len(pieces[i]) :
                   /\ pieces[i][p] = ":"
                   /\ \A j \in (p+1)..Len(pieces[i]) : pieces[i][j] # ":"
                   /\ out[i][1] = SubSeq(pieces[i], 1, p - 1)
                   /\ DecimalOf(SubSeq(pieces[i], p + 1, Len(pieces[i])), out[i][2])
          /\ {"connection_kwargs", "sentinel_kwargs"} \subseteq DOMAIN arguments
          /\ arguments["sentinel_kwargs"] = kw
          /\ DOMAIN kw = IF truthy THEN {"username", "password"} \cup SslKeys
                         ELSE {"username", "password"}
          /\ \A k \in DOMAIN kw : kw[k] = arguments_in[k]
          /\ "username" \notin DOMAIN arguments
          /\ "password" \notin DOMAIN arguments
          /\ \A k \in DOMAIN arguments_in \ {"username", "password", "sentinels"} :
                k \in DOMAIN arguments /\ arguments[k] = arguments_in[k]

C8_Witness ==
    /\ sentinel_pc = "done"
    /\ arguments_in["sentinels"] =
          <<"h", ":", "g", ":", "2", ",", "h", ":", "1", "2">>
    /\ arguments["sentinels"] = << <<<<"h", ":", "g">>, 2>>, <<<<"h">>, 12>> >>
    /\ "ssl" \in DOMAIN arguments_in /\ arguments_in["ssl"] = "str:False"
    /\ DOMAIN arguments["connection_kwargs"] = {"username", "password"} \cup SslKeys

(***************************************************************************)
(* Properties of configure_cache_region                                    *)
(***************************************************************************)
Reverse(q) == [i \in 1..Len(q) |-> q[Len(q) + 1 - i]]

\* C3: the region goes from unconfigured to configured and never back, and
\* configure_cache_region on a configured region, whatever the configuration
\* now says, changes nothing: no backend is instantiated, no proxy is
\* wrapped, the key mangler stays, no error is raised.
C3_ConfigureIdempotent ==
    [][/\ region.is_configured => region'.is_configured
       /\ (region.is_configured /\ ConfigureRegion) =>
             /\ region' = region
             /\ instantiations' = instantiations
             /\ store' = store
             /\ last'.error = "none"]_vars

C3_Witness ==
    /\ last.op = "configure"
    /\ last.configured_before
    /\ region.is_configured
    /\ instantiations = 1
    /\ conf.backend # region.backend
    /\ conf.debug_cache_backend
    /\ region.chain = <<>>

\* C7 as stated: configure_cache_region raises ConfigurationError for an
\* object that is no region and for a backend name that does not resolve,
\* and the region is then not configured and carries no proxy.
C7_ConfigurationErrorOnBoth ==
    [][/\ ConfigureOther =>
             last'.error = "ConfigurationError" /\ region' = region
       /\ (ConfigureRegion /\ ~region.is_configured /\ ~Resolvable(conf.backend)) =>
             /\ last'.error = "ConfigurationError"
             /\ ~region'.is_configured
             /\ region'.chain = <<>>]_vars

\* C7 amended: ConfigurationError is raised for an object that is no region;
\* for a backend name that does not resolve the plugin loader's own error
\* leaves the call, which is not a ConfigurationError; in both cases the
\* region is not configured and carries no proxy.
C7_ErrorsLeaveRegionUnconfigured ==
    [][/\ ConfigureOther =>
             last'.error = "ConfigurationError" /\ region' = region
       /\ (ConfigureRegion /\ ~region.is_configured /\ ~Resolvable(conf.backend)) =>
             /\ last'.error = "PluginLoadError"
             /\ ~region'.is_configured
             /\ region'.chain = <<>>
             /\ instantiations' = instantiations]_vars

C7_Witness ==
    /\ last.op = "configure"
    /\ last.error = "PluginLoadError"
    /\ ~region.is_configured
    /\ conf.backend = "no.such.backend"
    /\ conf.proxies # <<>>

\* C9: the first configure_cache_region puts the debug proxy, if asked for,
\* next to the backend and then the classes of the proxies list in list
\* order, the last one outermost; a call reaches the outermost proxy first
\* and the backend last; the debug proxy calls through on every operation
\* and hands back what get, get_multi and set returned.
C9_ProxyChainOrder ==
    [][/\ (ConfigureRegion /\ ~region.is_configured /\ last'.error = "none") =>
             region'.chain =
                (IF conf.debug_cache_backend THEN <<"_DebugProxy">> ELSE <<>>)
                \o conf.proxies
       /\ last'.trace # <<>> =>
             /\ [i \in 1..Len(last'.trace) |-> last'.trace[i].layer]
                   = Reverse(region'.chain) \o <<"backend">>
             /\ \A i \in 1..Len(last'.trace) :
                   /\ last'.trace[i].op = last'.op
                   /\ (last'.trace[i].layer = "_DebugProxy"
                       /\ last'.op \in {"get", "get_multi", "set"}) =>
                          /\ last'.trace[i].returned = last'.trace[i].proxied
                          /\ last'.trace[i].proxied
                                = last'.trace[Len(last'.trace)].returned]_vars

C9_Witness ==
    /\ region.chain = <<"_DebugProxy", "app.ProxyB", "app.ProxyA">>
    /\ last.op = "get"
    /\ last.result # NO_VALUE
    /\ Len(last.trace) = 4
    /\ last.trace[1].layer = "app.ProxyA"
    /\ last.trace[3].layer = "_DebugProxy"
    /\ last.trace[3].returned = <<[payload |-> Seed, ct |-> 0]>>
    /\ last.trace[4].layer = "backend"

\* C10: once configure_cache_region has configured the region its key
\* mangler is never None: the backend's own when the backend declares one,
\* the SHA-1 mangler otherwise.
C10_KeyManglerNeverNone ==
    [][/\ region'.is_configured => region'.key_mangler # "None"
       /\ (ConfigureRegion /\ ~region.is_configured /\ region'.is_configured) =>
             region'.key_mangler =
                IF conf.backend \in AppBackends THEN "backend" ELSE "sha1"]_vars

C10_Witness ==
    /\ region.is_configured
    /\ region.backend = "app.own_mangler"
    /\ region.key_mangler = "backend"
    /\ last.op = "configure"
    /\ ~last.configured_before

(***************************************************************************)
(* Properties of the memoization decorator                                 *)
(***************************************************************************)
\* C1: with a storing backend, [cache] enabled and the group's caching flag
\* true and cache_time None, a call with the arguments of the previous call,
\* with no expiry and no invalidation in between and no other call with
\* these arguments under way, does not run the function and returns what the
\* previous call returned.
C1_SecondCallHitsCache ==
    [][\A t \in Threads, a \in Args :
          (/\ CallBegin(t, a)
           /\ region.is_configured /\ BackendStores(region.backend)
           /\ last.op = "call" /\ last.arg = a /\ last.error = "none" /\ last.flag
           /\ \A u \in Threads : th[u].pc # "idle" => th[u].arg # a
           /\ conf.enabled /\ conf.caching \in {"absent", "True"}
           /\ conf.cache_time[memoize.expiration_group] = <<>>
           /\ now - last.ct <= conf.expiration_time) =>
              /\ th'[t].pc = "idle"
              /\ last'.op = "call" /\ last'.arg = a
              /\ ~last'.executed
              /\ gen' = gen
              /\ store' = store
              /\ last'.result = last.result]_vars

C1_Witness ==
    /\ last.op = "call" /\ last.arg = 1 /\ last.error = "none"
    /\ ~last.executed
    /\ last.flag
    /\ gen = 1
    /\ last.result = << <<1, 1>> >>
    /\ region.backend = "oslo_cache.dict"
    /\ \A u \in Threads : th[u].pc = "idle"

\* C2 as stated: when should_cache is false at the time of the call, the
\* call runs the function and its result is not stored.
C2_DisabledAlwaysExecutes ==
    (last.op = "call" /\ last.error = "none" /\ ~last.flag) =>
        last.executed /\ ~last.stored

\* C2 amended: should_cache is asked only after the function has run,
\* before the cache is populated.  When it is false then, the result is not
\* stored.  It is not asked before the cache is read: whatever it says, a
\* value that is held and has not expired is returned and the function does
\* not run, and a call that finds no value goes on to take the lock and,
\* finding none again, to run the function.
C2_DisabledNeverStores ==
    [][\A t \in Threads :
          /\ (CallStore(t) /\ ~ShouldCacheFn(conf, th[t].created)) =>
                /\ store' = store
                /\ last'.executed /\ ~last'.stored
                /\ last'.result = <<th[t].created>>
          /\ \A a \in Args :
                (CallBegin(t, a) /\ region.is_configured /\ ~ShouldCacheFn(conf, a)) =>
                   LET held == BackendGet(region.backend, store,
                                  Mangle(region.key_mangler, FunctionKeyGenerator(a)))
                       ttl  == IF conf.cache_time[memoize.expiration_group] = <<>>
                               THEN conf.expiration_time
                               ELSE conf.cache_time[memoize.expiration_group][1]
                   IN  /\ store' = store /\ gen' = gen
                       /\ held = NO_VALUE => th'[t].pc = "lock"
                       /\ (held # NO_VALUE /\ now - held[1].ct <= ttl) =>
                              /\ th'[t].pc = "idle"
                              /\ ~last'.executed
                              /\ last'.result = <<held[1].payload>>
          /\ (CallLock(t) /\ th[t].got = NO_VALUE
              /\ BackendGet(region.backend, store,
                    Mangle(region.key_mangler, FunctionKeyGenerator(th[t].arg))) = NO_VALUE) =>
                th'[t].pc = "run"]_vars

C2_Witness ==
    /\ last.op = "call" /\ last.error = "none"
    /\ ~last.flag
    /\ ~last.executed
    /\ last.result = << <<last.arg, 1>> >>
    /\ ~conf.enabled

\* C4: should_cache(value) is false whenever [cache] enabled is false,
\* whatever the group's caching flag and the value; when enabled it is the
\* group's caching flag, true when the group defines none; the options are
\* read when should_cache is called.
C4_ShouldCacheFollowsFlags ==
    [][ShouldCacheCall =>
          /\ ~conf.enabled => ~last'.flag
          /\ (conf.enabled /\ conf.caching = "absent") => last'.flag
          /\ (conf.enabled /\ conf.caching # "absent") =>
                (last'.flag <=> conf.caching = "True")]_vars

C4_Witness ==
    /\ last.op = "should_cache"
    /\ ~last.flag
    /\ ~conf.enabled
    /\ conf.caching = "True"
    /\ region.is_configured

====
